---- MODULE Spec2Model ----
(***************************************************************************)
(* The PDF annotation editor of pdf-lib-annotate: the page component       *)
(* (src/unnamed/part_000, lines 1-486) and the list item component         *)
(* (src/src/components/Annotation.svelte).                                 *)
(*                                                                         *)
(* The program is single threaded: every handler runs to completion, and   *)
(* the async functions (loadPdf, renderPage, addFieldsAndDownload) are     *)
(* split at their awaits.  JavaScript numbers are modelled as exact        *)
(* rationals <<numerator, denominator>> where the code divides.            *)
(***************************************************************************)
EXTENDS Integers, Sequences, FiniteSets, TLC

(* ------------------------------ bounds --------------------------------- *)
\* annotations the store may hold (a pointer-down is not taken beyond it)
MaxAnnotations == 2
\* times the clock read by Date.now() advances
MaxTicks == 1
\* arrow-key moves applied to annotations
MaxNudges == 1
\* page renders in flight at once
MaxRenders == 2

(* --------------------------- the environment --------------------------- *)
\* The PDF files the user may pick: each a sequence of page sizes in PDF
\* units (page.getViewport({scale: 1}) / page.getSize()).
Docs ==
  << << [w |-> 600, h |-> 800], [w |-> 800, h |-> 600] >>,
     << [w |-> 600, h |-> 800] >> >>

DocIds == 1 .. Len(Docs)

\* Values the number input can hold; min/max do not stop typed values.
PageInputs == 0 .. 3

\* Pointer positions relative to the canvas (event.clientX - rect.left, ...).
Points == { [x |-> px, y |-> py] : px \in {90, 270}, py \in {120, 180} }
PointA == [x |-> 90, y |-> 120]
PointB == [x |-> 270, y |-> 180]

Keys == {"ArrowLeft", "ArrowRight", "ArrowUp", "ArrowDown", "Enter"}

Names == {"", "Name"}

\* Date.now() at mount; later readings are FirstNow .. FirstNow + MaxTicks.
FirstNow == 12345

(* ----------------------------- constants ------------------------------- *)
\* let scale = 1.5
ScaleNum == 3
ScaleDen == 2

\* an HTML canvas before anything sized it
DefaultCanvas == [w |-> 300, h |-> 150]

\* null of pdfDocument and of selectedAnnotationId
Null == 0

\* null of currentBox
NoBox == [id |-> 0]

(* ------------------------------ numbers -------------------------------- *)
Abs(n) == IF n < 0 THEN -n ELSE n

RECURSIVE GCD(_, _)
GCD(a, b) == IF b = 0 THEN a ELSE GCD(b, a % b)

\* the rational n/d in lowest terms with a positive denominator
Rat(n, d) ==
  LET s == IF d < 0 THEN -1 ELSE 1
      g == GCD(Abs(n), Abs(d))
  IN  << (s * n) \div g, (s * d) \div g >>

RInt(n) == << n, 1 >>
RDiv(a, b) == Rat(a[1] * b[2], a[2] * b[1])
RMul(a, b) == Rat(a[1] * b[1], a[2] * b[2])
RSub(a, b) == Rat(a[1] * b[2] - b[1] * a[2], a[2] * b[2])

(* ------------------------------- state --------------------------------- *)
VARIABLES
  pdfDocument,          \* the open document (a DocIds value) or Null
  numPages,             \* $numPages
  currentPage,          \* $currentPage, bound to the page input
  canvas,               \* width/height of the three stacked canvases
  ctx,                  \* pdfContext, annotationContext, drawingContext set
  listening,            \* the mouse listeners are on drawingCanvas
  annotations,          \* $annotations
  editing,              \* isEditing of each list item, parallel to annotations
  isDrawing,
  currentBox,
  selectedAnnotationId,
  now,                  \* the clock Date.now() reads
  loading,              \* files being read and parsed (loadPdf before its await ends)
  renders,              \* renderPage calls in flight
  exportPending,        \* addFieldsAndDownload calls before their loop
  exported,             \* what the export that just ran requested and how it ended
  nudges,               \* arrow-key moves so far
  shown,                \* what is painted on pdfCanvas
  layer,                \* the rectangles stroked on annotationCanvas
  drawing,              \* the rectangles stroked on drawingCanvas
  last                  \* what the handler that just ran did: "commit" or
                        \* "discard" (endDrawingBox ended a drag), "nudged" or
                        \* "ignored" (handleKeyboardBoxControl), else "other"

vars ==
  << pdfDocument, numPages, currentPage, canvas, ctx, listening, annotations,
     editing, isDrawing, currentBox, selectedAnnotationId, now, loading,
     renders, exportPending, exported, nudges, shown, layer, drawing, last >>

NoExport ==
  [outcome |-> "none", doc |-> Null, placed |-> << >>, thrown |-> "none",
   alerts |-> 0, downloads |-> 0]

\* a canvas nothing is painted on
Blank == [pdf |-> Null, pageNumber |-> 0, overtaken |-> FALSE]

Init ==
  /\ pdfDocument = Null
  /\ numPages = 0
  /\ currentPage = 1
  /\ canvas = DefaultCanvas
  /\ ctx = FALSE
  /\ listening = FALSE
  /\ annotations = << >>
  /\ editing = << >>
  /\ isDrawing = FALSE
  /\ currentBox = NoBox
  /\ selectedAnnotationId = Null
  /\ now = FirstNow
  /\ loading = {}
  /\ renders = {}
  /\ exportPending = {}
  /\ exported = NoExport
  /\ nudges = 0
  /\ shown = Blank
  /\ layer = {}
  /\ drawing = {}
  /\ last = "other"

(* ------------------------------ the clock ------------------------------ *)
Tick ==
  /\ now < FirstNow + MaxTicks
  /\ now' = now + 1
  /\ exported' = NoExport
  /\ last' = "other"
  /\ UNCHANGED << pdfDocument, numPages, currentPage, canvas, ctx, listening,
                  annotations, editing, isDrawing, currentBox,
                  selectedAnnotationId, loading, renders, exportPending, nudges,
                  shown, layer, drawing >>

(* ------------------------- loading and rendering ----------------------- *)
\* renderPage up to its first await: nothing happens without a document.
\* No call cancels an earlier one; `stale` records that a later call was made
\* while this one was in flight, `overtaken` that the latest call completed
\* its paint while this one was in flight.
RenderPageCall(pdf, pageNumber) ==
  IF pdf = Null
    THEN renders
    ELSE { [t EXCEPT !.stale = TRUE] : t \in renders }
           \cup {[pdf |-> pdf, pageNumber |-> pageNumber, stage |-> "getPage",
                  stale |-> FALSE, overtaken |-> FALSE]}

\* onFileChange with a PDF file: the reader and the parser start
OnFileChange(d) ==
  /\ loading = {}
  /\ loading' = {d}
  /\ exported' = NoExport
  /\ last' = "other"
  /\ UNCHANGED << pdfDocument, numPages, currentPage, canvas, ctx, listening,
                  annotations, editing, isDrawing, currentBox,
                  selectedAnnotationId, now, renders, exportPending, nudges,
                  shown, layer, drawing >>

\* loadPdf after getDocument resolved
LoadPdf(d) ==
  /\ d \in loading
  /\ Cardinality(renders) < MaxRenders
  /\ loading' = loading \ {d}
  /\ pdfDocument' = d
  /\ numPages' = Len(Docs[d])
  /\ renders' = RenderPageCall(d, 1)
  /\ exported' = NoExport
  /\ last' = "other"
  /\ UNCHANGED << currentPage, canvas, ctx, listening, annotations, editing,
                  isDrawing, currentBox, selectedAnnotationId, now,
                  exportPending, nudges,
                  shown, layer, drawing >>

\* canvas.width/height are integers: the viewport size is truncated
ViewportSize(size) ==
  [w |-> (size.w * ScaleNum) \div ScaleDen, h |-> (size.h * ScaleNum) \div ScaleDen]

\* renderPage from pdf.getPage resolving to the await of page.render: the
\* three canvases are sized, which clears them
RenderSized(t) ==
  /\ t \in renders
  /\ t.stage = "getPage"
  /\ canvas' = ViewportSize(Docs[t.pdf][t.pageNumber])
  /\ ctx' = TRUE
  /\ shown' = Blank
  /\ layer' = {}
  /\ drawing' = {}
  /\ renders' = (renders \ {t}) \cup {[t EXCEPT !.stage = "render"]}
  /\ exported' = NoExport
  /\ last' = "other"
  /\ UNCHANGED << pdfDocument, numPages, currentPage, listening, annotations,
                  editing, isDrawing, currentBox, selectedAnnotationId, now,
                  loading, exportPending, nudges >>

\* renderPage when page.render rejects: pdf.js refuses a canvas that another
\* render is still painting, and the rest of renderPage is not run
RenderRejected(t) ==
  /\ t \in renders
  /\ t.stage = "getPage"
  /\ \E u \in renders : u.stage = "render"
  /\ canvas' = ViewportSize(Docs[t.pdf][t.pageNumber])
  /\ ctx' = TRUE
  /\ shown' = Blank
  /\ layer' = {}
  /\ drawing' = {}
  /\ renders' = renders \ {t}
  /\ exported' = NoExport
  /\ last' = "other"
  /\ UNCHANGED << pdfDocument, numPages, currentPage, listening, annotations,
                  editing, isDrawing, currentBox, selectedAnnotationId, now,
                  loading, exportPending, nudges >>

\* strokeRect(x, y, width, height): the rectangle whatever the signs of the
\* extents, a line when one extent is zero, nothing when both are
StrokeRect(box) ==
  IF box.width = 0 /\ box.height = 0
    THEN {}
    ELSE {[x |-> IF box.width < 0 THEN box.x + box.width ELSE box.x,
           y |-> IF box.height < 0 THEN box.y + box.height ELSE box.y,
           width |-> Abs(box.width), height |-> Abs(box.height)]}

\* annotationCanvas after renderAnnotations: cleared, then every box of the
\* store stroked, whatever its page
RenderAnnotations(boxes) ==
  IF ~ctx
    THEN layer
    ELSE UNION { StrokeRect(boxes[i]) : i \in 1 .. Len(boxes) }

\* mutant: a render that a later call made stale paints nothing
PaintedUnlessStale(t) ==
  IF t.stale
    THEN shown
    ELSE [pdf |-> t.pdf, pageNumber |-> t.pageNumber, overtaken |-> FALSE]

\* pdfCanvas once page.render has drawn the page of this call
Painted(t) ==
  [pdf |-> t.pdf, pageNumber |-> t.pageNumber, overtaken |-> t.overtaken]

\* the renders still in flight once the render t has completed
Remaining(t) ==
  { IF t.stale THEN u ELSE [u EXCEPT !.overtaken = TRUE] : u \in renders \ {t} }

\* renderPage after page.render resolved: annotations redrawn, listeners added
RenderPainted(t) ==
  /\ t \in renders
  /\ t.stage = "render"
  /\ renders' = Remaining(t)
  /\ shown' = Painted(t)
  /\ layer' = RenderAnnotations(annotations)
  /\ listening' = TRUE
  /\ exported' = NoExport
  /\ last' = "other"
  /\ UNCHANGED << pdfDocument, numPages, currentPage, canvas, ctx, annotations,
                  editing, isDrawing, currentBox, selectedAnnotationId, now,
                  loading, exportPending, nudges,
                  drawing >>

\* mutant: the boxes of other pages are dropped on navigation
StoreOfPageOnly(boxes, pageNumber) ==
  SelectSeq(boxes, LAMBDA box : box.page = pageNumber)

\* $annotations after onPageChange: it and renderPage read the store and
\* never write it
StoreOnPageChange(boxes, pageNumber) == boxes

\* the page input: bind:value stores the typed value, then onPageChange runs
OnPageChange(v) ==
  /\ pdfDocument # Null
  /\ currentPage' = v
  /\ IF v >= 1 /\ v <= numPages
       THEN /\ Cardinality(renders) < MaxRenders
            /\ renders' = RenderPageCall(pdfDocument, v)
       ELSE renders' = renders
  /\ exported' = NoExport
  /\ last' = "other"
  /\ annotations' = StoreOnPageChange(annotations, v)
  /\ UNCHANGED << pdfDocument, numPages, canvas, ctx, listening,
                  editing, isDrawing, currentBox, selectedAnnotationId, now,
                  loading, exportPending, nudges,
                  shown, layer, drawing >>

(* ------------------------------- drawing ------------------------------- *)
\* `drawn` and `raster` record the canvas size and the number of the page
\* painted on the canvas at the pointer-down; the code stores neither.
StartDrawingBox(p) ==
  IF ~ctx
    THEN UNCHANGED << isDrawing, currentBox, drawing >>
    ELSE /\ drawing' = {}
         /\ isDrawing' = TRUE
         /\ currentBox' = [id |-> now, x |-> p.x, y |-> p.y, page |-> currentPage,
                           width |-> 0, height |-> 0, name |-> "",
                           drawn |-> canvas, raster |-> shown.pageNumber]

MouseDown(p) ==
  /\ listening
  /\ Len(annotations) < MaxAnnotations
  /\ StartDrawingBox(p)
  /\ exported' = NoExport
  /\ last' = "other"
  /\ UNCHANGED << pdfDocument, numPages, currentPage, canvas, ctx, listening,
                  annotations, editing, selectedAnnotationId, now, loading,
                  renders, exportPending, nudges,
                  shown, layer >>

UpdateDrawingBox(p) ==
  IF ~isDrawing \/ ~ctx \/ currentBox = NoBox
    THEN UNCHANGED << currentBox, drawing >>
    ELSE /\ currentBox' = [currentBox EXCEPT !.width = p.x - currentBox.x,
                                             !.height = p.y - currentBox.y]
         /\ drawing' = StrokeRect(currentBox')

MouseMove(p) ==
  /\ listening
  /\ UpdateDrawingBox(p)
  /\ exported' = NoExport
  /\ last' = "other"
  /\ UNCHANGED << pdfDocument, numPages, currentPage, canvas, ctx, listening,
                  annotations, editing, isDrawing, selectedAnnotationId, now,
                  loading, renders, exportPending, nudges,
                  shown, layer >>

\* the guard of endDrawingBox
EndReturnsEarly == ~isDrawing \/ currentBox = NoBox \/ ~ctx

\* mutant: a drag to the left or upwards counts as empty
HasExtentPositive(box) == box.width > 0 /\ box.height > 0

\* mutant: one non-zero extent is enough
HasExtentEither(box) == box.width # 0 \/ box.height # 0

\* box.width !== 0 && box.height !== 0
HasExtent(box) == box.width # 0 /\ box.height # 0

\* mutant: the page is read when the drag ends
CommittedOnCurrentPage(box) == [box EXCEPT !.page = currentPage]

\* the box endDrawingBox appends
Committed(box) == box

EndDrawingBox ==
  IF EndReturnsEarly
    THEN UNCHANGED << annotations, editing, isDrawing, currentBox, layer, drawing >>
    ELSE /\ IF HasExtent(currentBox)
              THEN /\ annotations' = Append(annotations, Committed(currentBox))
                   /\ editing' = Append(editing, FALSE)
              ELSE UNCHANGED << annotations, editing >>
         /\ layer' = layer \cup drawing
         /\ drawing' = {}
         /\ isDrawing' = FALSE
         /\ currentBox' = NoBox

\* the branch endDrawingBox takes
EndBranch ==
  IF EndReturnsEarly THEN "other"
  ELSE IF HasExtent(currentBox) THEN "commit" ELSE "discard"

MouseUp ==
  /\ listening
  /\ EndDrawingBox
  /\ exported' = NoExport
  /\ last' = EndBranch
  /\ UNCHANGED << pdfDocument, numPages, currentPage, canvas, ctx, listening,
                  selectedAnnotationId, now, loading, renders, exportPending,
                  nudges,
                  shown >>

\* mutant: a pointer-leave is ignored
MouseOutIgnored ==
  /\ listening
  /\ exported' = NoExport
  /\ last' = "other"
  /\ UNCHANGED << pdfDocument, numPages, currentPage, canvas, ctx, listening,
                  annotations, editing, isDrawing, currentBox,
                  selectedAnnotationId, now, loading, renders, exportPending,
                  nudges, shown, layer, drawing >>

MouseOut ==
  /\ listening
  /\ EndDrawingBox
  /\ exported' = NoExport
  /\ last' = EndBranch
  /\ UNCHANGED << pdfDocument, numPages, currentPage, canvas, ctx, listening,
                  selectedAnnotationId, now, loading, renders, exportPending,
                  nudges,
                  shown >>

(* ------------------------------ keyboard ------------------------------- *)
\* event.shiftKey ? 10 : 1
MoveAmount(shift) == IF shift THEN 10 ELSE 1

\* the switch on event.key
Moved(box, key, amount) ==
  CASE key = "ArrowLeft"  -> [box EXCEPT !.x = @ - amount]
    [] key = "ArrowRight" -> [box EXCEPT !.x = @ + amount]
    [] key = "ArrowUp"    -> [box EXCEPT !.y = @ - amount]
    [] key = "ArrowDown"  -> [box EXCEPT !.y = @ + amount]
    [] OTHER              -> box

HasId(boxes, id) == \E i \in 1 .. Len(boxes) : boxes[i].id = id

\* the guards of handleKeyboardBoxControl
KeyIgnored(boxes, sel) == sel = Null \/ ~ctx \/ ~HasId(boxes, sel)

\* mutant: no selection moves every box
HandleKeyboardMovesUnselected(boxes, sel, key, shift) ==
  IF ~ctx
    THEN boxes
    ELSE [i \in 1 .. Len(boxes) |->
            IF sel = Null \/ boxes[i].id = sel
              THEN Moved(boxes[i], key, MoveAmount(shift))
              ELSE boxes[i]]

\* the store after handleKeyboardBoxControl
HandleKeyboardBoxControl(boxes, sel, key, shift) ==
  IF KeyIgnored(boxes, sel)
    THEN boxes
    ELSE [i \in 1 .. Len(boxes) |->
            IF boxes[i].id = sel
              THEN Moved(boxes[i], key, MoveAmount(shift))
              ELSE boxes[i]]

\* a keydown reaching window
KeyDown(key, shift) ==
  LET after == HandleKeyboardBoxControl(annotations, selectedAnnotationId, key, shift)
  IN  /\ after # annotations => nudges < MaxNudges
      /\ annotations' = after
      /\ nudges' = IF after # annotations THEN nudges + 1 ELSE nudges
      /\ drawing' = IF KeyIgnored(annotations, selectedAnnotationId) THEN drawing ELSE {}
      /\ layer' = IF KeyIgnored(annotations, selectedAnnotationId)
                    THEN layer ELSE RenderAnnotations(after)
      /\ exported' = NoExport
      /\ last' = IF KeyIgnored(annotations, selectedAnnotationId) THEN "ignored"
                  ELSE IF after # annotations THEN "nudged" ELSE "other"
      /\ UNCHANGED << pdfDocument, numPages, currentPage, canvas, ctx, listening,
                      editing, isDrawing, currentBox, selectedAnnotationId, now,
                      loading, renders, exportPending,
                  shown >>

(* --------------------------- the annotation list ----------------------- *)
Items == 1 .. Len(annotations)

\* onSelect={selectedAnnotationId.set}
OnSelect(id) == id

\* a click on a list item outside its buttons
SelectClick(i) ==
  /\ i \in Items
  /\ selectedAnnotationId' = OnSelect(annotations[i].id)
  /\ exported' = NoExport
  /\ last' = "other"
  /\ UNCHANGED << pdfDocument, numPages, currentPage, canvas, ctx, listening,
                  annotations, editing, isDrawing, currentBox, now, loading,
                  renders, exportPending, nudges,
                  shown, layer, drawing >>

\* a click on the pencil button; the click then reaches the item's on:click
EditClick(i) ==
  /\ i \in Items
  /\ ~editing[i]
  /\ editing' = [editing EXCEPT ![i] = TRUE]
  /\ selectedAnnotationId' = OnSelect(annotations[i].id)
  /\ exported' = NoExport
  /\ last' = "other"
  /\ UNCHANGED << pdfDocument, numPages, currentPage, canvas, ctx, listening,
                  annotations, isDrawing, currentBox, now, loading, renders,
                  exportPending, nudges,
                  shown, layer, drawing >>

\* onEdit
OnEdit(boxes, id, name) ==
  [i \in 1 .. Len(boxes) |->
     IF boxes[i].id = id THEN [boxes[i] EXCEPT !.name = name] ELSE boxes[i]]

\* a click on the confirm button with `name` in the input; the click then
\* reaches the item's on:click
ConfirmClick(i, name) ==
  /\ i \in Items
  /\ editing[i]
  /\ annotations' = OnEdit(annotations, annotations[i].id, name)
  /\ editing' = [editing EXCEPT ![i] = FALSE]
  /\ selectedAnnotationId' = OnSelect(annotations[i].id)
  /\ exported' = NoExport
  /\ last' = "other"
  /\ UNCHANGED << pdfDocument, numPages, currentPage, canvas, ctx, listening,
                  isDrawing, currentBox, now, loading, renders, exportPending,
                  nudges,
                  shown, layer, drawing >>

\* Enter in the input with `name` in it; the keydown then reaches window
ConfirmEnter(i, name) ==
  /\ i \in Items
  /\ editing[i]
  /\ annotations' =
       HandleKeyboardBoxControl(OnEdit(annotations, annotations[i].id, name),
                                selectedAnnotationId, "Enter", FALSE)
  /\ drawing' = IF KeyIgnored(annotations, selectedAnnotationId) THEN drawing ELSE {}
  /\ layer' = IF KeyIgnored(annotations, selectedAnnotationId)
                THEN layer ELSE RenderAnnotations(annotations')
  /\ editing' = [editing EXCEPT ![i] = FALSE]
  /\ exported' = NoExport
  /\ last' = "other"
  /\ UNCHANGED << pdfDocument, numPages, currentPage, canvas, ctx, listening,
                  isDrawing, currentBox, selectedAnnotationId, now, loading,
                  renders, exportPending, nudges,
                  shown >>

\* boxes.filter((box) => box.id !== id)
Filtered(boxes, id) == SelectSeq(boxes, LAMBDA box : box.id # id)

\* the list items left once the keyed each block has dropped the removed ones
ItemsKept(boxes, flags, id) ==
  LET idx == SelectSeq([j \in 1 .. Len(boxes) |-> j], LAMBDA j : boxes[j].id # id)
  IN  [k \in 1 .. Len(idx) |-> flags[idx[k]]]

\* selectedAnnotationId after removeAnnotation(id)
SelectionAfterRemove(sel, id) == Null

\* A click on the remove button.  The click's path also holds the item's
\* on:click (onSelect).  A click dispatched by script reaches it; after a
\* click dispatched by the browser the component is destroyed, and its
\* listener removed, in the microtask checkpoint that follows the button's
\* handler, so onSelect does not run.
RemoveClick(i, bubbles) ==
  /\ i \in Items
  /\ ~editing[i]
  /\ annotations' = Filtered(annotations, annotations[i].id)
  /\ layer' = RenderAnnotations(annotations')
  /\ editing' = ItemsKept(annotations, editing, annotations[i].id)
  /\ selectedAnnotationId' =
       IF bubbles
         THEN OnSelect(annotations[i].id)
         ELSE SelectionAfterRemove(selectedAnnotationId, annotations[i].id)
  /\ exported' = NoExport
  /\ last' = "other"
  /\ UNCHANGED << pdfDocument, numPages, currentPage, canvas, ctx, listening,
                  isDrawing, currentBox, now, loading, renders, exportPending,
                  nudges,
                  shown, drawing >>

(* -------------------------------- export ------------------------------- *)
RECURSIVE Ascending(_)
\* a set of numbers as an increasing sequence
Ascending(S) ==
  IF S = {} THEN << >>
  ELSE LET m == CHOOSE x \in S : \A y \in S : x <= y
       IN  << m >> \o Ascending(S \ {m})

\* the keys of pageAnnotationMap
PageKeys(boxes) == { boxes[i].page : i \in 1 .. Len(boxes) }

\* mutant: a later box of a page replaces the earlier ones
PageAnnotationMapLastOnly(boxes) ==
  [p \in PageKeys(boxes) |->
     LET own == SelectSeq(boxes, LAMBDA box : box.page = p)
     IN  << own[Len(own)] >>]

\* pageAnnotationMap: the boxes of each page, in store order
PageAnnotationMap(boxes) ==
  [p \in PageKeys(boxes) |-> SelectSeq(boxes, LAMBDA box : box.page = p)]

RECURSIVE Flatten(_, _)
Flatten(keys, map) ==
  IF keys = << >> THEN << >> ELSE map[Head(keys)] \o Flatten(Tail(keys), map)

\* mutant: the last box is not visited
VisitedWithoutLast(boxes) ==
  LET all == Flatten(Ascending(PageKeys(boxes)), PageAnnotationMap(boxes))
  IN  SubSeq(all, 1, Len(all) - 1)

\* the boxes in the order the two loops visit them: Object.entries lists
\* integer keys in increasing order
Visited(boxes) == Flatten(Ascending(PageKeys(boxes)), PageAnnotationMap(boxes))

\* mutant: the generated name also for a named box
FieldNameGenerated(box) == "Field_" \o ToString(box.id)

\* box.name || `Field_${box.id}`
FieldName(box) == IF box.name # "" THEN box.name ELSE "Field_" \o ToString(box.id)

\* the options of textField.addToPage for a box on a page of size `size`,
\* with drawingCanvas of size `cv`
Placement(box, size, cv) ==
  LET pdfX == RMul(RDiv(RInt(box.x), RInt(cv.w)), RInt(size.w))
      pdfY == RSub(RInt(size.h), RMul(RDiv(RInt(box.y), RInt(cv.h)), RInt(size.h)))
      pdfBoxWidth == RMul(RDiv(RInt(box.width), RInt(cv.w)), RInt(size.w))
      pdfBoxHeight == RMul(RDiv(RInt(box.height), RInt(cv.h)), RInt(size.h))
  IN  [page |-> box.page - 1, name |-> FieldName(box), x |-> pdfX,
       y |-> RSub(pdfY, pdfBoxHeight), width |-> pdfBoxWidth,
       height |-> pdfBoxHeight, box |-> box]

\* pdfDoc.getPage(index) throws outside the document
HasPage(d, pageNum) == pageNum - 1 >= 0 /\ pageNum - 1 < Len(Docs[d])

RECURSIVE Reach(_, _)
\* the boxes visited before getPage throws
Reach(steps, d) ==
  IF steps = << >> \/ ~HasPage(d, Head(steps).page) THEN 0
  ELSE 1 + Reach(Tail(steps), d)

Min(a, b) == IF a < b THEN a ELSE b

RECURSIVE Unique(_, _)
\* the boxes visited before createTextField meets a field name again, which
\* it refuses
Unique(steps, names) ==
  IF steps = << >> \/ FieldName(Head(steps)) \in names THEN 0
  ELSE 1 + Unique(Tail(steps), names \cup {FieldName(Head(steps))})

\* The call of the try block that throws.  `loads`: PDFDocument.load
\* resolves; `reach`: the boxes visited before getPage throws; `fields`: the
\* placements made before createTextField or addToPage throws (as many as
\* the boxes: save() throws; more: none does).
Thrown(loads, reach, fields, total) ==
  IF ~loads THEN "load"
  ELSE IF reach < total /\ reach <= fields THEN "getPage"
  ELSE IF fields < total THEN "field"
  ELSE IF fields = total THEN "save"
  ELSE "none"

\* mutant: what was placed is downloaded whatever threw
OutcomeDownloadsAnyway(thrown) == "download"

\* link.click() ends the try block; a throw anywhere before it ends in catch
Outcome(thrown) == IF thrown = "none" THEN "download" ELSE "error"

\* alert(...) of the catch block
Alerts(outcome) == IF outcome = "error" THEN 1 ELSE 0

\* link.click()
Downloads(outcome) == IF outcome = "download" THEN 1 ELSE 0

\* the click on Download up to the first await
ExportClick ==
  /\ exportPending' =
       IF pdfDocument = Null THEN exportPending ELSE exportPending \cup {pdfDocument}
  /\ exported' = NoExport
  /\ last' = "other"
  /\ UNCHANGED << pdfDocument, numPages, currentPage, canvas, ctx, listening,
                  annotations, editing, isDrawing, currentBox,
                  selectedAnnotationId, now, loading, renders, nudges,
                  shown, layer, drawing >>

\* addFieldsAndDownload from the await of PDFDocument.load to its end.
\* `calls` is the number of placements the authoring library accepts before
\* one of its calls throws for a reason of its own.
\* Nothing after the loops reads or writes the editor's state, so save() and
\* the download are part of this step.
ExportRun(d, calls, loads) ==
  LET steps == Visited(annotations)
      reach == Reach(steps, d)
      unique == Unique(steps, {})
      fields == IF unique < Len(steps) THEN Min(calls, unique) ELSE calls
      n == IF loads THEN Min(fields, reach) ELSE 0
      thrown == Thrown(loads, reach, fields, Len(steps))
  IN  /\ d \in exportPending
      /\ exportPending' = exportPending \ {d}
      /\ exported' =
           [outcome |-> Outcome(thrown),
            doc |-> d,
            placed |-> [k \in 1 .. n |->
                          Placement(steps[k], Docs[d][steps[k].page], canvas)],
            thrown |-> thrown,
            alerts |-> Alerts(Outcome(thrown)),
            downloads |-> Downloads(Outcome(thrown))]
      /\ last' = "other"
      /\ UNCHANGED << pdfDocument, numPages, currentPage, canvas, ctx, listening,
                      annotations, editing, isDrawing, currentBox,
                      selectedAnnotationId, now, loading, renders, nudges,
                      shown, layer, drawing >>

(* --------------------------- specifications ---------------------------- *)
\* every handler, every input
Next ==
  \/ Tick
  \/ \E d \in DocIds : OnFileChange(d)
  \/ \E d \in DocIds : LoadPdf(d)
  \/ \E t \in renders : RenderSized(t)
  \/ \E t \in renders : RenderRejected(t)
  \/ \E t \in renders : RenderPainted(t)
  \/ \E v \in PageInputs : OnPageChange(v)
  \/ \E p \in Points : MouseDown(p)
  \/ \E p \in Points : MouseMove(p)
  \/ MouseUp
  \/ MouseOut
  \/ \E key \in Keys, shift \in BOOLEAN : KeyDown(key, shift)
  \/ \E i \in Items : SelectClick(i)
  \/ \E i \in Items : EditClick(i)
  \/ \E i \in Items, name \in Names : ConfirmClick(i, name)
  \/ \E i \in Items, name \in Names : ConfirmEnter(i, name)
  \/ \E i \in Items, bubbles \in BOOLEAN : RemoveClick(i, bubbles)
  \/ ExportClick
  \/ \E d \in DocIds, calls \in 0 .. MaxAnnotations + 1, loads \in BOOLEAN :
       ExportRun(d, calls, loads)

Spec == Init /\ [][Next]_vars

\* Drawing in every direction on a one-page document that is loaded once,
\* with the page input, the clock and list clicks between the pointer events.
NextDraw ==
  \/ Tick
  \/ pdfDocument = Null /\ OnFileChange(2)
  \/ LoadPdf(2)
  \/ \E t \in renders : RenderSized(t)
  \/ \E t \in renders : RenderPainted(t)
  \/ OnPageChange(2)
  \/ \E p \in Points : MouseDown(p)
  \/ \E p \in Points : MouseMove(p)
  \/ MouseUp
  \/ MouseOut
  \/ \E i \in Items : SelectClick(i)
  \/ \E i \in Items, bubbles \in BOOLEAN : RemoveClick(i, bubbles)

SpecDraw == Init /\ [][NextDraw]_vars

\* Export of boxes drawn from PointA to PointB on a document, loaded once,
\* whose two pages differ in size, with every value of the page input; the
\* page is changed while no render is in flight.
NextExport ==
  \/ Tick
  \/ pdfDocument = Null /\ OnFileChange(1)
  \/ LoadPdf(1)
  \/ \E t \in renders : RenderSized(t)
  \/ \E t \in renders : RenderPainted(t)
  \/ \E v \in {1, 2, 3} : renders = {} /\ OnPageChange(v)
  \/ MouseDown(PointA)
  \/ MouseMove(PointB)
  \/ MouseUp
  \/ MouseOut
  \/ ExportClick
  \/ \E calls \in 0 .. MaxAnnotations + 1, loads \in BOOLEAN : ExportRun(1, calls, loads)

SpecExport == Init /\ [][NextExport]_vars

\* A document replaced by another, or loaded again, at any time while no
\* render is in flight, with page changes, drags from PointA to PointB and
\* clicks on list items.
NextReload ==
  \/ \E d \in DocIds : renders = {} /\ OnFileChange(d)
  \/ \E d \in DocIds : LoadPdf(d)
  \/ \E t \in renders : RenderSized(t)
  \/ \E t \in renders : RenderPainted(t)
  \/ \E v \in {1, 2} : renders = {} /\ OnPageChange(v)
  \/ MouseDown(PointA)
  \/ MouseMove(PointB)
  \/ MouseUp
  \/ MouseOut
  \/ \E i \in Items : SelectClick(i)

SpecReload == Init /\ [][NextReload]_vars

\* Page changes at any time on the same document, with renders in flight
\* together and between the pointer events of drags from PointA to PointB.
NextRender ==
  \/ pdfDocument = Null /\ OnFileChange(1)
  \/ LoadPdf(1)
  \/ \E t \in renders : RenderSized(t)
  \/ \E t \in renders : RenderRejected(t)
  \/ \E t \in renders : RenderPainted(t)
  \/ \E v \in {1, 2, 3} : OnPageChange(v)
  \/ MouseDown(PointA)
  \/ MouseMove(PointB)
  \/ MouseUp
  \/ MouseOut

SpecRender == Init /\ [][NextRender]_vars

\* The annotation list and the keyboard on a one-page document that is
\* loaded once: select, rename, remove, arrow keys, the page input, export.
NextList ==
  \/ Tick
  \/ pdfDocument = Null /\ OnFileChange(2)
  \/ LoadPdf(2)
  \/ \E t \in renders : RenderSized(t)
  \/ \E t \in renders : RenderPainted(t)
  \/ OnPageChange(2)
  \/ MouseDown(PointA)
  \/ MouseMove(PointB)
  \/ MouseUp
  \/ MouseOut
  \/ \E key \in Keys, shift \in BOOLEAN : KeyDown(key, shift)
  \/ \E i \in Items : SelectClick(i)
  \/ \E i \in Items : EditClick(i)
  \/ \E i \in Items, name \in Names : ConfirmClick(i, name)
  \/ \E i \in Items, name \in Names : ConfirmEnter(i, name)
  \/ \E i \in Items, bubbles \in BOOLEAN : RemoveClick(i, bubbles)
  \/ ExportClick
  \/ \E calls \in 0 .. MaxAnnotations + 1, loads \in BOOLEAN : ExportRun(2, calls, loads)

SpecList == Init /\ [][NextList]_vars

(* ------------------------------ properties ----------------------------- *)
Stored == { annotations[i] : i \in 1 .. Len(annotations) }

\* a pointer-up or pointer-leave reaching drawingCanvas
PointerEnd == MouseUp \/ MouseOut

\* C1: every stored annotation has width >= 0 and height >= 0, and its
\* (x, y) is the top-left corner of the rectangle that was dragged, whatever
\* the direction of the drag.
C1_StoredNormalized ==
  \A box \in Stored :
    /\ box.width >= 0
    /\ box.height >= 0
    /\ box.x = Min(box.x, box.x + box.width)
    /\ box.y = Min(box.y, box.y + box.height)

\* C2: a drag that ends with both extents non-zero appends exactly its box
\* to the store; a pointer-up or pointer-leave during a drag ends the drag;
\* and the store grows in no other step, and never by more than one.
C2_ExactlyOneCommit ==
  [][ /\ ( /\ isDrawing
           /\ ~isDrawing'
           /\ currentBox.width # 0
           /\ currentBox.height # 0 )
         => annotations' = Append(annotations, currentBox)
      /\ (PointerEnd /\ isDrawing) => ~isDrawing'
      /\ Len(annotations') > Len(annotations)
         => /\ isDrawing
            /\ ~isDrawing'
            /\ currentBox.width # 0
            /\ currentBox.height # 0
            /\ Len(annotations') = Len(annotations) + 1 ]_vars

\* C2 witness: a drag up and to the left was just committed behind an
\* earlier annotation.
C2_Witness ==
  /\ last = "commit"
  /\ Len(annotations) = 2
  /\ annotations[2].width < 0
  /\ annotations[2].height < 0

\* C3: a drag that ends with width zero or height zero leaves the store as
\* it was, and so do the pointer-down and the pointer-moves of any drag.
C3_ZeroExtentCommitsNothing ==
  [][ /\ ( /\ isDrawing
           /\ ~isDrawing'
           /\ (currentBox.width = 0 \/ currentBox.height = 0) )
         => annotations' = annotations
      /\ (isDrawing' /\ currentBox' # currentBox) => annotations' = annotations
    ]_vars

\* C3 witness: a drag was just discarded while the store held an annotation.
C3_Witness ==
  /\ last = "discard"
  /\ Len(annotations) = 1

\* the page size an exported box is placed on
PageSizeOf(f) == Docs[exported.doc][f.box.page]

\* the rational r equals n / d * m
IsScaled(r, n, d, m) == r[1] * d = n * m * r[2]

\* field f is box b mapped from a canvas of size cv to a page of size size
IsPlacementOf(f, b, cv, size) ==
  /\ IsScaled(f.x, b.x, cv.w, size.w)
  /\ IsScaled(f.width, b.width, cv.w, size.w)
  /\ IsScaled(f.height, b.height, cv.h, size.h)
  /\ f.y[1] * cv.h * f.height[2]
       = (size.h * cv.h - b.y * size.h) * f.y[2] * f.height[2]
           - f.height[1] * cv.h * f.y[2]

Placed == { exported.placed[k] : k \in 1 .. Len(exported.placed) }

\* C4: a completed export has placed every stored box, and each box that was
\* drawn on the canvas of its own page is mapped from that canvas to the size
\* of the page; box (90,120,180,60) drawn on a 900x1200 canvas for a 600x800
\* page is placed at x=60, y=680, width=120, height=40.
C4_PlacementFromDrawnCanvas ==
  exported.outcome = "download" =>
    /\ \A box \in Stored : \E f \in Placed : f.box = box
    /\ \A f \in Placed :
         f.box.drawn = ViewportSize(PageSizeOf(f)) =>
           /\ IsPlacementOf(f, f.box, f.box.drawn, PageSizeOf(f))
           /\ ( /\ PageSizeOf(f) = [w |-> 600, h |-> 800]
                /\ f.box.drawn = [w |-> 900, h |-> 1200]
                /\ << f.box.x, f.box.y, f.box.width, f.box.height >>
                     = << 90, 120, 180, 60 >> )
              => << f.x, f.y, f.width, f.height >>
                   = << RInt(60), RInt(680), RInt(120), RInt(40) >>

\* What holds instead of C4: the canvas of the formula is drawingCanvas as it
\* is when the export runs.
PlacementFromCurrentCanvas ==
  \A f \in Placed : IsPlacementOf(f, f.box, canvas, PageSizeOf(f))

\* the placements, in order, that address page index p
BatchOf(p) == SelectSeq(exported.placed, LAMBDA f : f.page = p)

BoxesOf(fields) == [k \in 1 .. Len(fields) |-> fields[k].box]

IsPrefix(a, b) == Len(a) <= Len(b) /\ \A k \in 1 .. Len(a) : a[k] = b[k]

\* C5: the placements of an export come in one batch per page: the
\* placements of a page are consecutive, address page index page-1 and are
\* boxes of that page in store order; a completed export has exactly one
\* batch for each page the store references, holding all boxes of that page.
C5_ExportPartitionsByPage ==
  LET placed == exported.placed
      OfPage(p) == SelectSeq(annotations, LAMBDA box : box.page = p)
  IN  /\ \A i, j, l \in 1 .. Len(placed) :
           (i < j /\ j < l /\ placed[i].page = placed[l].page)
             => placed[j].page = placed[i].page
      /\ \A f \in Placed : f.page = f.box.page - 1
      /\ \A f \in Placed : IsPrefix(BoxesOf(BatchOf(f.page)), OfPage(f.page + 1))
      /\ exported.outcome = "download"
           => /\ { f.page : f \in Placed } = { box.page - 1 : box \in Stored }
              /\ \A box \in Stored :
                   BoxesOf(BatchOf(box.page - 1)) = OfPage(box.page)

\* C5 witness: a completed export of a store whose first box is on page 2 and
\* whose second box is on page 1.
C5_Witness ==
  /\ exported.outcome = "download"
  /\ Len(annotations) = 2
  /\ annotations[1].page = 2
  /\ annotations[2].page = 1

\* C6: an exported field is named as its annotation when that name is not
\* empty, and Field_{id} when it is: "Name" exports as "Name", an unnamed
\* box of id 12345 as "Field_12345".
C6_FieldNames ==
  \A f \in Placed :
    /\ f.box \in Stored
    /\ f.box.name # "" => f.name = f.box.name
    /\ f.box.name = "" => f.name = "Field_" \o ToString(f.box.id)
    /\ f.box.name = "Name" => f.name = "Name"
    /\ (f.box.name = "" /\ f.box.id = 12345) => f.name = "Field_12345"

\* C6 witness: one export placed a named and an unnamed annotation.
C6_Witness ==
  /\ exported.outcome = "download"
  /\ \E f, g \in Placed : f.name = "Name" /\ g.name = "Field_12345"

\* C7: removing an annotation other than the selected one leaves the
\* selection unchanged: a step that shrinks the store and keeps the selected
\* annotation in it keeps the selection.
C7_RemoveOtherKeepsSelection ==
  [][ ( /\ Len(annotations') < Len(annotations)
        /\ HasId(annotations, selectedAnnotationId)
        /\ HasId(annotations', selectedAnnotationId) )
      => selectedAnnotationId' = selectedAnnotationId ]_vars

\* C8: once the click that removes the selected annotation is processed, the
\* annotation is absent from the store and the selection is null.
C8_RemoveSelectedClearsSelection ==
  [][ ( /\ HasId(annotations, selectedAnnotationId)
        /\ ~HasId(annotations', selectedAnnotationId) )
      => selectedAnnotationId' = Null ]_vars

Arrows == {"ArrowLeft", "ArrowRight", "ArrowUp", "ArrowDown"}

\* the box moved by one arrow key event
Nudged(box, key, shift) ==
  LET step == IF shift THEN 10 ELSE 1
  IN  [box EXCEPT
         !.x = @ + (IF key = "ArrowRight" THEN step
                    ELSE IF key = "ArrowLeft" THEN -step ELSE 0),
         !.y = @ + (IF key = "ArrowDown" THEN step
                    ELSE IF key = "ArrowUp" THEN -step ELSE 0)]

\* C9: an arrow key event while an annotation is selected moves one
\* annotation, the selected one, by the signed step along one axis (1, or 10
\* with shift) and changes nothing else of it, no other annotation, not the
\* order of the store and not the selection.
C9_NudgeMovesOneCoordinate ==
  [][ \A key \in Arrows, shift \in BOOLEAN :
        (HasId(annotations, selectedAnnotationId) /\ KeyDown(key, shift))
          => /\ \E i \in 1 .. Len(annotations) :
                  /\ annotations[i].id = selectedAnnotationId
                  /\ annotations' =
                       [annotations EXCEPT ![i] = Nudged(annotations[i], key, shift)]
             /\ selectedAnnotationId' = selectedAnnotationId
             /\ editing' = editing ]_vars

\* What holds instead of C9: the key moves every annotation whose id is the
\* selected id, each by the signed step along one axis, and nothing else.
NudgeMovesEverySelectedId ==
  [][ \A key \in Arrows, shift \in BOOLEAN :
        (HasId(annotations, selectedAnnotationId) /\ KeyDown(key, shift))
          => /\ Len(annotations') = Len(annotations)
             /\ \A i \in 1 .. Len(annotations) :
                  annotations'[i] =
                    IF annotations[i].id = selectedAnnotationId
                      THEN Nudged(annotations[i], key, shift)
                      ELSE annotations[i]
             /\ selectedAnnotationId' = selectedAnnotationId
             /\ editing' = editing ]_vars

\* C10: a key event that reaches the keyboard handler while nothing is
\* selected changes no annotation, not the store order and not the
\* selection, whatever the key and the modifier.
C10_KeyWithoutSelectionIsNoOp ==
  [][ \A key \in Keys, shift \in BOOLEAN :
        (selectedAnnotationId = Null /\ KeyDown(key, shift))
          => /\ annotations' = annotations
             /\ selectedAnnotationId' = Null
             /\ editing' = editing ]_vars

\* C10 witness: a key event was just ignored with annotations in the store
\* and no selection.
C10_Witness ==
  /\ last = "ignored"
  /\ selectedAnnotationId = Null
  /\ Len(annotations) > 0

\* C11: no two annotations in the store have the same id.
C11_IdsUnique ==
  \A i, j \in 1 .. Len(annotations) :
    i # j => annotations[i].id # annotations[j].id

\* a step of page navigation: the page input, or a step of a page render
Navigation ==
  \/ \E v \in PageInputs : OnPageChange(v)
  \/ \E t \in renders : RenderSized(t) \/ RenderRejected(t) \/ RenderPainted(t)

\* C12: a page change, in range or not, and every step of the render it
\* starts leave the store as it was: same annotations, fields and order.
C12_NavigationKeepsStore ==
  [][ Navigation => annotations' = annotations ]_vars

\* C12 witness: page 2 was navigated to and its render has completed while
\* the store holds a box of page 1 behind a box of page 2.
C12_Witness ==
  /\ renders = {}
  /\ currentPage = 2
  /\ shown.pageNumber = 2
  /\ Len(annotations) = 2
  /\ annotations[1].page = 2
  /\ annotations[2].page = 1

\* C13: an export in which a step throws (load, getPage, a field, save)
\* triggers no download and raises one alert; an export that downloads has
\* made every placement, threw nowhere and raised no alert.
C13_ExportAllOrNothing ==
  exported.outcome # "none" =>
    /\ exported.thrown # "none"
         => exported.downloads = 0 /\ exported.alerts = 1
    /\ exported.downloads > 0
         => /\ exported.downloads = 1
            /\ exported.alerts = 0
            /\ exported.thrown = "none"
            /\ Len(exported.placed) = Len(annotations)
    /\ exported.downloads + exported.alerts = 1

\* C13 witness: an export failed after it had placed one of two boxes.
C13_Witness ==
  /\ exported.thrown \in {"getPage", "field"}
  /\ Len(exported.placed) = 1
  /\ Len(annotations) = 2
  /\ exported.downloads = 0

\* the number of members of sequence seq equal to e
Count(seq, e) == Cardinality({ k \in 1 .. Len(seq) : seq[k] = e })

\* C14: an export that ends in a download has requested as many placements
\* as the store holds annotations, each annotation placed as often as it is
\* in the store: once.
C14_OnePlacementPerAnnotation ==
  exported.outcome = "download" =>
    /\ Len(exported.placed) = Len(annotations)
    /\ \A box \in Stored :
         Count(BoxesOf(exported.placed), box) = Count(annotations, box)

\* C14 witness: a download for a store of two annotations with different ids.
C14_Witness ==
  /\ exported.downloads = 1
  /\ Len(exported.placed) = 2
  /\ annotations[1].id # annotations[2].id

\* C15: while a document is loaded the current page is within
\* [1, numPages], and every render in flight is for a page of its document.
C15_PageWithinBounds ==
  /\ pdfDocument # Null => (currentPage >= 1 /\ currentPage <= numPages)
  /\ \A t \in renders : t.pageNumber >= 1 /\ t.pageNumber <= Len(Docs[t.pdf])

\* What holds of C15: renders are only started for pages of the document.
RendersWithinBounds ==
  \A t \in renders : t.pageNumber >= 1 /\ t.pageNumber <= Len(Docs[t.pdf])

\* C16: a pointer-leave is the step a pointer-up would be in the same state,
\* and either of them during a drag leaves no drag and no current box.
C16_LeaveEqualsUp ==
  [][ /\ MouseOut <=> MouseUp
      /\ (isDrawing /\ PointerEnd) => (~isDrawing' /\ currentBox' = NoBox) ]_vars

\* C16 witness: a drag up and to the right has just been ended and
\* committed, and the machine is idle.
C16_Witness ==
  /\ last = "commit"
  /\ ~isDrawing
  /\ currentBox = NoBox
  /\ annotations[Len(annotations)].width > 0
  /\ annotations[Len(annotations)].height < 0

\* C17: the box of a drag takes its page from the current page at
\* pointer-down and keeps it through the moves; a commit stores that page;
\* and no step changes the page of an annotation that stays in the store.
C17_PageFixedAtPointerDown ==
  [][ /\ \A p \in Points :
           (MouseDown(p) /\ currentBox' # currentBox)
             => currentBox'.page = currentPage
      /\ \A p \in Points :
           (MouseMove(p) /\ currentBox' # NoBox)
             => currentBox'.page = currentBox.page
      /\ Len(annotations') > Len(annotations)
           => /\ annotations'[Len(annotations')].page = currentBox.page
              /\ \A i \in 1 .. Len(annotations) :
                   annotations'[i].page = annotations[i].page
      /\ Len(annotations') = Len(annotations)
           => \A i \in 1 .. Len(annotations) :
                annotations'[i].page = annotations[i].page
      /\ Len(annotations') < Len(annotations)
           => \E i \in 1 .. Len(annotations) :
                annotations' = Filtered(annotations, annotations[i].id) ]_vars

\* C17 witness: a drag started on page 1 was just committed, as a box of
\* page 1, while the page input holds 2.
C17_Witness ==
  /\ last = "commit"
  /\ currentPage = 2
  /\ annotations[Len(annotations)].page = 1

\* the rectangles of the boxes of a store
StoreRects(boxes) == UNION { StrokeRect(boxes[i]) : i \in 1 .. Len(boxes) }

\* C18: after a step that ends a drag (commit or discard), moves an
\* annotation or removes one, the rectangles on the annotation layer are the
\* rectangles of the annotations in the store.
C18_LayerShowsStore ==
  [][ ( \/ isDrawing /\ ~isDrawing'
        \/ nudges' # nudges
        \/ Len(annotations') < Len(annotations) )
      => layer' = StoreRects(annotations') ]_vars

\* C19: a render that completes its paint leaves its own page on the base
\* canvas, whether or not a later render was started or has completed, and
\* a page change removes no render in flight.
C19_LastPaintWins ==
  [][ /\ \A t \in renders :
           RenderPainted(t)
             => shown'.pdf = t.pdf /\ shown'.pageNumber = t.pageNumber
      /\ \A v \in PageInputs :
           OnPageChange(v)
             => \A t \in renders :
                  \E u \in renders' :
                    /\ u.pdf = t.pdf
                    /\ u.pageNumber = t.pageNumber
                    /\ u.stage = t.stage ]_vars

\* C19 witness: no render is in flight, the current page is a page of the
\* document, and the base canvas shows another page, painted by a render
\* that was in flight while a later one was started and completed.
C19_Witness ==
  /\ renders = {}
  /\ currentPage >= 1
  /\ currentPage <= numPages
  /\ shown.overtaken
  /\ shown.pdf = pdfDocument
  /\ shown.pageNumber # currentPage

\* a rename of list item i to name, by the confirm button or by Enter
Rename(i, name) == ConfirmClick(i, name) \/ ConfirmEnter(i, name)

\* C20: a rename sets the name of one annotation, the renamed one, and
\* leaves its other fields, every other annotation, the order of the store
\* and the selection as they were.
C20_RenameChangesNameOnly ==
  [][ \A i \in Items, name \in Names :
        Rename(i, name)
          => /\ annotations' = [annotations EXCEPT ![i].name = name]
             /\ selectedAnnotationId' = selectedAnnotationId ]_vars

\* What holds instead of C20: a rename sets the name of every annotation
\* that has the id of the renamed one and changes nothing else in the store;
\* renaming by Enter keeps the selection, the confirm button selects the
\* renamed item; and onEdit with an id no annotation has returns the store.
RenameChangesNamesOfId ==
  [][ \A i \in Items, name \in Names :
        Rename(i, name)
          => /\ Len(annotations') = Len(annotations)
             /\ \A j \in 1 .. Len(annotations) :
                  annotations'[j] =
                    IF annotations[j].id = annotations[i].id
                      THEN [annotations[j] EXCEPT !.name = name]
                      ELSE annotations[j]
             /\ ConfirmEnter(i, name) => selectedAnnotationId' = selectedAnnotationId
             /\ ConfirmClick(i, name) => selectedAnnotationId' = annotations[i].id
             /\ OnEdit(annotations, Null, name) = annotations ]_vars

\* a step of loadPdf that replaces the open document by another one
Replaced == \E d \in DocIds : pdfDocument # Null /\ pdfDocument # d /\ LoadPdf(d)

\* C21: replacing the open document discards the annotation store: once the
\* second document is loaded the store holds no annotation made while the
\* previous document was open, and the selection is null.
C21_ReplaceDiscardsStore ==
  [][ Replaced => annotations' = << >> /\ selectedAnnotationId' = Null ]_vars

\* What holds instead of C21: loading a document, the first or a later one,
\* leaves the store, the selection and the page selector as they were and
\* asks for the render of page 1.
LoadKeepsStore ==
  [][ \A d \in DocIds :
        LoadPdf(d)
          => /\ annotations' = annotations
             /\ selectedAnnotationId' = selectedAnnotationId
             /\ currentPage' = currentPage
             /\ \E t \in renders' \ renders : t.pdf = d /\ t.pageNumber = 1 ]_vars

\* the placements an export of the store requests when the canvases have
\* the size cv
RequestedWith(cv) ==
  LET steps == Visited(annotations)
  IN  [k \in 1 .. Len(steps) |->
         Placement(steps[k], Docs[exported.doc][steps[k].page], cv)]

\* the canvas sizes the pages of the exported document are displayed at
DisplaySizes ==
  { ViewportSize(Docs[exported.doc][n]) : n \in 1 .. Len(Docs[exported.doc]) }

\* C22: the rectangles an export requests do not depend on the page that is
\* displayed when the export is triggered: a completed export has requested
\* the placements that an export of the same store requests with any other
\* page of the document on the canvas.
C22_ExportIndependentOfDisplayedPage ==
  exported.outcome = "download" =>
    \A cv \in DisplaySizes : exported.placed = RequestedWith(cv)

\* C23: every stored annotation has the number of the page whose raster was
\* on the canvas at the pointer-down that created it, and that number is a
\* page of the loaded document.
C23_PageIsRasterShown ==
  pdfDocument # Null =>
    \A box \in Stored : box.page = box.raster /\ box.page \in 1 .. numPages

\* What holds instead of C23: every stored annotation has a page number the
\* page selector can hold, whatever the canvas showed.
PageIsPageInput ==
  \A box \in Stored : box.page \in PageInputs \cup {1}

\* C24: the selection never dangles: the selected id is null or the id of
\* an annotation in the store.
C24_SelectionNeverDangles ==
  selectedAnnotationId = Null \/ HasId(annotations, selectedAnnotationId)

====
